---- MODULE Spec2Model ----
(***************************************************************************)
(* Model of the multifit ModelEvaluator (src/src/ModelEvaluator.cc) and of *)
(* the Minuit objective adapter ChisqFunction                              *)
(* (src/trunk/include/lsst/meas/multifit/grid/Frame.h).                    *)
(*                                                                         *)
(* Pixel values are small integers; weighted quantities are exact          *)
(* rationals <<numerator, denominator>> in lowest terms.  Variances are    *)
(* perfect squares, so sqrt and the division by sigma are exact, as they   *)
(* are in double arithmetic for these values.                              *)
(***************************************************************************)
EXTENDS Integers, Sequences, FiniteSets, TLC

(* ------------------------------ bounds --------------------------------- *)
NumFrames == 2        \* exposures a caller can choose from
MaxMinPix == 1        \* largest threshold _nMinPix
MaxLinear == 1        \* largest getLinearParameterSize()
MaxNonlinear == 1     \* largest getNonlinearParameterSize()
MaxParam == 2         \* parameter values are 1..MaxParam

(* --------------------------- rational numbers -------------------------- *)
Abs(x) == IF x < 0 THEN -x ELSE x

RECURSIVE GCD(_, _)
GCD(a, b) == IF b = 0 THEN a ELSE GCD(b, a % b)

\* the rational n/d (d # 0) in lowest terms with a positive denominator
Rat(n, d) ==
    LET g == GCD(Abs(n), Abs(d))
        s == IF d < 0 THEN -1 ELSE 1
    IN  <<(s * n) \div g, (s * d) \div g>>

RInt(n) == <<n, 1>>
RAdd(x, y) == Rat(x[1] * y[2] + y[1] * x[2], x[2] * y[2])
RSub(x, y) == Rat(x[1] * y[2] - y[1] * x[2], x[2] * y[2])
RMul(x, y) == Rat(x[1] * y[1], x[2] * y[2])
RDiv(x, y) == Rat(x[1] * y[2], x[2] * y[1])
RNeg(x) == <<-x[1], x[2]>>

RECURSIVE RDot(_, _)
\* Eigen dot product of two equally long vectors of rationals
RDot(u, v) ==
    IF u = <<>> THEN RInt(0)
    ELSE RAdd(RMul(Head(u), Head(v)), RDot(Tail(u), Tail(v)))

\* the integer square root of a perfect square
Sqrt(v) == CHOOSE s \in 0..v : s * s = v

RECURSIVE SumSeq(_)
SumSeq(s) == IF s = <<>> THEN 0 ELSE Head(s) + SumSeq(Tail(s))

(* ------------------- exposures and the model (external) ---------------- *)
FrameIds == 1..NumFrames

\* number of pixels of the clipped and masked projection footprint of an exposure
FootprintNpix(f) == f

\* pixel value and variance of the j-th footprint pixel of exposure f
PixelData(f, j) == f + j
PixelVariance(f, j) == IF (f + j) % 2 = 0 THEN 4 ELSE 1

\* model intensity and its partial derivatives at the j-th pixel of exposure f:
\* model = SUM_i lin[i] * Basis(i) + SUM_m nonlin[m] * (m + j),
\* Basis(i) = i + j + f + SUM_m m * nonlin[m]
NonlinearTerm(nonlin) == SumSeq([m \in 1..Len(nonlin) |-> m * nonlin[m]])
Basis(i, f, j, nonlin) == i + j + f + NonlinearTerm(nonlin)
ModelValue(f, j, lin, nonlin) ==
    SumSeq([i \in 1..Len(lin) |-> lin[i] * Basis(i, f, j, nonlin)])
    + SumSeq([m \in 1..Len(nonlin) |-> nonlin[m] * (m + j)])
LinearDerivativeValue(i, f, j, lin, nonlin) == Basis(i, f, j, nonlin)
NonlinearDerivativeValue(m, f, j, lin, nonlin) == m * SumSeq(lin) + m + j

ParamValues == 1..MaxParam
ParamVectors(n) == [1..n -> ParamValues]

\* params vectors of any length a caller of the function can pass
AnyParamVectors == UNION {ParamVectors(n) : n \in 0..(MaxLinear + MaxNonlinear + 1)}

\* exposure lists a caller can hand to setExposureList: distinct exposures in
\* any order
ExposureLists ==
    {l \in UNION {[1..n -> FrameIds] : n \in 0..NumFrames} :
        \A a, b \in 1..Len(l) : a # b => l[a] # l[b]}

(* ------------------------------- state --------------------------------- *)
VARIABLES
    nLinear,          \* _model->getLinearParameterSize()
    nNonlinear,       \* _model->getNonlinearParameterSize()
    evaluator,        \* the fields of the ModelEvaluator
    chisq,            \* the ChisqFunction of the running fit, if any
    aborted,          \* the process was terminated by a failed assertion
    lastAssign,       \* the arguments of the latest setExposureList call
    calls,            \* the last two value/gradient calls of the running fit
    fit,              \* the locals and the position of the running apply
    invoked           \* the projections the latest compute operation invoked

vars == <<nLinear, nNonlinear, evaluator, chisq, aborted, lastAssign, calls,
          fit, invoked>>

MODEL_IMAGE == "MODEL_IMAGE"
LINEAR_PARAMETER_DERIVATIVE == "LINEAR_PARAMETER_DERIVATIVE"
NONLINEAR_PARAMETER_DERIVATIVE == "NONLINEAR_PARAMETER_DERIVATIVE"
AllProducts == {MODEL_IMAGE, LINEAR_PARAMETER_DERIVATIVE, NONLINEAR_PARAMETER_DERIVATIVE}

getLinearParameterSize == nLinear
getNonlinearParameterSize == nNonlinear
getNPixels(e) == Len(e._dataVector)

\* ndarray::allocate: a fresh buffer of n elements whose contents are not initialised
Allocate(n) == [k \in 1..n |-> -1]
AllocateMatrix(rows, n) == [r \in 1..rows |-> Allocate(n)]

\* dirty is the value of _dirty the call found
NoCall == [op |-> "none", params |-> <<>>, ret |-> <<>>, dirty |-> TRUE]

(* ------------------- ModelEvaluator::setExposureList ------------------- *)
\* variant: an exposure at the threshold is accepted too
AcceptsAtThreshold(npix, nMinPix) == npix >= nMinPix

\* the acceptance test of one exposure
Accepts(npix, nMinPix) == npix > nMinPix

\* a projection made by _model->makeProjection; it has no buffers yet
NewProjection(f) ==
    [frame |-> f, npix |-> FootprintNpix(f), assigned |-> FALSE,
     pixelStart |-> 0, pixelEnd |-> 0]

RECURSIVE MakeProjections(_, _)
\* the loop that creates the projections of the accepted exposures
MakeProjections(exposureList, nMinPix) ==
    IF exposureList = <<>> THEN <<>>
    ELSE LET f == Head(exposureList)
             rest == MakeProjections(Tail(exposureList), nMinPix)
         IN  IF Accepts(FootprintNpix(f), nMinPix)
             THEN <<NewProjection(f)>> \o rest
             ELSE rest

\* variant: pixSum counts the accepted exposures, not their pixels
PixSumOnePerExposure(projections) == Len(projections)

RECURSIVE PixSum(_)
\* pixSum: the footprint sizes of the accepted exposures added up
PixSum(projections) ==
    IF projections = <<>> THEN 0
    ELSE Head(projections).npix + PixSum(Tail(projections))

\* pixelEnd of a projection whose slice starts at pixelStart
SliceEnd(pixelStart, nPix) == pixelStart + nPix

RECURSIVE AssignBuffers(_, _)
\* the loop that hands each projection its view [pixelStart, pixelEnd)
AssignBuffers(projections, pixelStart) ==
    IF projections = <<>> THEN <<>>
    ELSE LET p == Head(projections)
             pixelEnd == SliceEnd(pixelStart, p.npix)
         IN  <<[p EXCEPT !.assigned = TRUE,
                         !.pixelStart = pixelStart,
                         !.pixelEnd = pixelEnd]>>
             \o AssignBuffers(Tail(projections), pixelEnd)

\* a buffer with the view [pixelStart, pixelEnd) overwritten by values[1],
\* values[2], ...
WriteView(buffer, pixelStart, pixelEnd, values) ==
    [k \in 1..Len(buffer) |->
        IF pixelStart < k /\ k <= pixelEnd THEN values[k - pixelStart]
        ELSE buffer[k]]

RECURSIVE CompressData(_, _)
\* compressImage, data part, over all projections in list order
CompressData(projections, buffer) ==
    IF projections = <<>> THEN buffer
    ELSE LET p == Head(projections)
         IN  CompressData(Tail(projections),
                 WriteView(buffer, p.pixelStart, p.pixelEnd,
                           [j \in 1..p.npix |-> PixelData(p.frame, j)]))

RECURSIVE CompressVariance(_, _)
\* compressImage, variance part, over all projections in list order
CompressVariance(projections, buffer) ==
    IF projections = <<>> THEN buffer
    ELSE LET p == Head(projections)
         IN  CompressVariance(Tail(projections),
                 WriteView(buffer, p.pixelStart, p.pixelEnd,
                           [j \in 1..p.npix |-> PixelVariance(p.frame, j)]))

\* _sigma = varianceMap.cwise().sqrt() over getNPixels() elements
CwiseSqrt(variance, n) == [k \in 1..n |-> Sqrt(variance[k])]

\* setExposureList(exposureList); throwsAt = k > 0 when building the footprint
\* or the projection of the k-th exposure throws, 0 when nothing throws
EvSetExposureList(e, exposureList, throwsAt) ==
    IF throwsAt > 0
    THEN [e EXCEPT
            !._projectionList =
                MakeProjections(SubSeq(exposureList, 1, throwsAt - 1), e._nMinPix),
            !._validProducts = {}]
    ELSE LET made == MakeProjections(exposureList, e._nMinPix)
             pixSum == PixSum(made)
             projections == AssignBuffers(made, 0)
             data == CompressData(projections, Allocate(pixSum))
             variance == CompressVariance(projections, Allocate(pixSum))
         IN  [e EXCEPT
                !._projectionList = projections,
                !._validProducts = {},
                !._dataVector = data,
                !._varianceVector = variance,
                !._modelImageBuffer = Allocate(pixSum),
                !._linearDerivativeBuffer = AllocateMatrix(getLinearParameterSize, pixSum),
                !._nonlinearDerivativeBuffer = AllocateMatrix(getNonlinearParameterSize, pixSum),
                !._sigma = CwiseSqrt(variance, Len(data))]

(* ------------------------- parameter setters --------------------------- *)
EvSetLinearParameters(e, values) ==
    [e EXCEPT !._linearParameters = values, !._validProducts = {}]

EvSetNonlinearParameters(e, values) ==
    [e EXCEPT !._nonlinearParameters = values, !._validProducts = {}]

\* variant: a higher threshold empties the projection list
EvSetNMinPixDroppingProjections(e, n) ==
    [e EXCEPT !._nMinPix = n,
              !._projectionList = IF n > e._nMinPix THEN <<>> ELSE @]

EvSetNMinPix(e, n) == [e EXCEPT !._nMinPix = n]

\* getWeightedData(): the data vector divided element-wise by sigma
getWeightedData(e) ==
    [k \in 1..getNPixels(e) |-> Rat(e._dataVector[k], e._sigma[k])]

(* ---------------- ModelProjection computations (external) -------------- *)
\* Each projection writes its product into the views it was handed by
\* setExposureList; a projection that was handed none writes into storage of
\* its own and leaves the evaluator's buffers alone.
RECURSIVE ProjectModelImage(_, _, _, _)
ProjectModelImage(projections, buffer, lin, nonlin) ==
    IF projections = <<>> THEN buffer
    ELSE LET p == Head(projections)
             written == IF p.assigned
                        THEN WriteView(buffer, p.pixelStart, p.pixelEnd,
                                 [j \in 1..p.npix |-> ModelValue(p.frame, j, lin, nonlin)])
                        ELSE buffer
         IN  ProjectModelImage(Tail(projections), written, lin, nonlin)

RECURSIVE ProjectLinearRow(_, _, _, _, _)
ProjectLinearRow(projections, row, i, lin, nonlin) ==
    IF projections = <<>> THEN row
    ELSE LET p == Head(projections)
             written == IF p.assigned
                        THEN WriteView(row, p.pixelStart, p.pixelEnd,
                                 [j \in 1..p.npix |-> LinearDerivativeValue(i, p.frame, j, lin, nonlin)])
                        ELSE row
         IN  ProjectLinearRow(Tail(projections), written, i, lin, nonlin)

RECURSIVE ProjectNonlinearRow(_, _, _, _, _)
ProjectNonlinearRow(projections, row, m, lin, nonlin) ==
    IF projections = <<>> THEN row
    ELSE LET p == Head(projections)
             written == IF p.assigned
                        THEN WriteView(row, p.pixelStart, p.pixelEnd,
                                 [j \in 1..p.npix |-> NonlinearDerivativeValue(m, p.frame, j, lin, nonlin)])
                        ELSE row
         IN  ProjectNonlinearRow(Tail(projections), written, m, lin, nonlin)

ProjectLinearDerivative(projections, matrix, lin, nonlin) ==
    [i \in 1..Len(matrix) |-> ProjectLinearRow(projections, matrix[i], i, lin, nonlin)]

ProjectNonlinearDerivative(projections, matrix, lin, nonlin) ==
    [m \in 1..Len(matrix) |-> ProjectNonlinearRow(projections, matrix[m], m, lin, nonlin)]

(* --------------------- ModelEvaluator compute operations --------------- *)
\* variant: the buffer is divided by the variance
CwiseQuotientByVariance(buffer, sigma, n) ==
    [k \in 1..n |-> Rat(buffer[k], sigma[k] * sigma[k])]

\* map.cwise() / _sigma over n elements
CwiseQuotient(buffer, sigma, n) == [k \in 1..n |-> Rat(buffer[k], sigma[k])]

\* MatrixMap map(buffer.getData(), n, cols): column i is row i of the buffer
MatrixMap(buffer, n, cols) == [i \in 1..cols |-> [k \in 1..n |-> RInt(buffer[i][k])]]

\* for (i = 0; i < count; ++i) matrix.col(i).cwise() /= sigma, for the columns
\* the matrix has
DivideColumns(matrix, count, sigma) ==
    [i \in 1..Len(matrix) |->
        IF i <= count
        THEN [k \in 1..Len(matrix[i]) |-> RDiv(matrix[i][k], RInt(sigma[k]))]
        ELSE matrix[i]]

\* variant: a recomputed model image marks every product valid
EvComputeModelImageAllValid(e) ==
    IF MODEL_IMAGE \notin e._validProducts
    THEN LET buffer == ProjectModelImage(e._projectionList, e._modelImageBuffer,
                                         e._linearParameters, e._nonlinearParameters)
         IN  [e EXCEPT
                !._modelImageBuffer = buffer,
                !._modelImage = CwiseQuotient(buffer, e._sigma, getNPixels(e)),
                !._validProducts = AllProducts]
    ELSE e

EvComputeModelImage(e) ==
    IF MODEL_IMAGE \notin e._validProducts
    THEN LET buffer == ProjectModelImage(e._projectionList, e._modelImageBuffer,
                                         e._linearParameters, e._nonlinearParameters)
         IN  [e EXCEPT
                !._modelImageBuffer = buffer,
                !._modelImage = CwiseQuotient(buffer, e._sigma, getNPixels(e)),
                !._validProducts = @ \cup {MODEL_IMAGE}]
    ELSE e

\* variant: the linear derivative is weighted by dividing sigma into it for
\* good
EvComputeLinearParameterDerivativeResettingSigma(e) ==
    IF LINEAR_PARAMETER_DERIVATIVE \notin e._validProducts
    THEN LET buffer == ProjectLinearDerivative(e._projectionList, e._linearDerivativeBuffer,
                                               e._linearParameters, e._nonlinearParameters)
             map == MatrixMap(buffer, getNPixels(e), getLinearParameterSize)
         IN  [e EXCEPT
                !._linearDerivativeBuffer = buffer,
                !._linearDerivative = DivideColumns(map, getLinearParameterSize, e._sigma),
                !._sigma = [k \in 1..getNPixels(e) |-> 1],
                !._validProducts = @ \cup {LINEAR_PARAMETER_DERIVATIVE}]
    ELSE e

EvComputeLinearParameterDerivative(e) ==
    IF LINEAR_PARAMETER_DERIVATIVE \notin e._validProducts
    THEN LET buffer == ProjectLinearDerivative(e._projectionList, e._linearDerivativeBuffer,
                                               e._linearParameters, e._nonlinearParameters)
             map == MatrixMap(buffer, getNPixels(e), getLinearParameterSize)
         IN  [e EXCEPT
                !._linearDerivativeBuffer = buffer,
                !._linearDerivative = DivideColumns(map, getLinearParameterSize, e._sigma),
                !._validProducts = @ \cup {LINEAR_PARAMETER_DERIVATIVE}]
    ELSE e

\* the number of columns the weighting loop of the nonlinear derivative visits
NonlinearWeightingBound == getLinearParameterSize

\* for(int i = 0; i < getLinearParameterSize(); ++i) _nonlinearDerivative.col(i):
\* the column indices the weighting loop of the nonlinear derivative uses
WeightedColumnIndices(e) ==
    IF NONLINEAR_PARAMETER_DERIVATIVE \notin e._validProducts
    THEN 0..(NonlinearWeightingBound - 1)
    ELSE {}

\* the weighting loop of the nonlinear derivative indexes a column the matrix
\* does not have
NonlinearColumnOutOfRange(e) ==
    /\ NONLINEAR_PARAMETER_DERIVATIVE \notin e._validProducts
    /\ NonlinearWeightingBound > getNonlinearParameterSize

\* assertFails: the out-of-range col(i) trips Eigen's index assertion and the
\* process ends inside the loop; otherwise the loop runs on past the matrix and
\* the operation returns
EvComputeNonlinearParameterDerivative(e, assertFails) ==
    IF NONLINEAR_PARAMETER_DERIVATIVE \notin e._validProducts
    THEN LET buffer == ProjectNonlinearDerivative(e._projectionList, e._nonlinearDerivativeBuffer,
                                                  e._linearParameters, e._nonlinearParameters)
             map == MatrixMap(buffer, getNPixels(e), getNonlinearParameterSize)
         IN  [e EXCEPT
                !._nonlinearDerivativeBuffer = buffer,
                !._nonlinearDerivative = DivideColumns(map, NonlinearWeightingBound, e._sigma),
                !._validProducts = IF assertFails THEN @
                                   ELSE @ \cup {NONLINEAR_PARAMETER_DERIVATIVE}]
    ELSE e

\* the outcomes the out-of-range column access can have
AssertOutcomes(e) == IF NonlinearColumnOutOfRange(e) THEN BOOLEAN ELSE {FALSE}

(* ------------------------------ ChisqFunction -------------------------- *)
NoChisq == [alive |-> FALSE, _dirty |-> TRUE, _measured |-> <<>>]

\* variant: the flag starts clear
ChisqFunctionNewClean(e) ==
    [alive |-> TRUE, _dirty |-> FALSE, _measured |-> getWeightedData(e)]

\* the constructor
ChisqFunctionNew(e) ==
    [alive |-> TRUE, _dirty |-> TRUE, _measured |-> getWeightedData(e)]

\* variant: a pass that finds the first element equal clears the flag
checkParamsFirstElementClears(dirty, params, e) ==
    IF getLinearParameterSize > 0
    THEN params[1] # e._linearParameters[1]
    ELSE IF getNonlinearParameterSize > 0
         THEN params[1] # e._nonlinearParameters[1]
         ELSE FALSE

\* variant: the flag is the outcome of comparing every element
checkParamsComparing(dirty, params, e) ==
    params # e._linearParameters \o e._nonlinearParameters

\* checkParams: the value of _dirty it leaves behind.  Each loop body ends
\* in a return that no brace ties to the if, so only the first element that
\* exists is ever compared.
checkParams(dirty, params, e) ==
    IF dirty THEN dirty
    ELSE IF getLinearParameterSize > 0
         THEN (IF params[1] # e._linearParameters[1] THEN TRUE ELSE dirty)
         ELSE IF getNonlinearParameterSize > 0
              THEN (IF params[1] # e._nonlinearParameters[1] THEN TRUE ELSE dirty)
              ELSE FALSE

\* what checkParams and the setters find when they read nLinear + nNonlinear
\* elements from &params[0] on: the elements of params as far as it goes, and
\* beyond its end whatever the memory holds
ParamsRead(params) ==
    {read \in ParamVectors(getLinearParameterSize + getNonlinearParameterSize) :
        \A k \in 1..Len(read) : k <= Len(params) => read[k] = params[k]}

\* &params[0] and &params[getLinearParameterSize()] as the setters read them
LinearPart(params) == SubSeq(params, 1, getLinearParameterSize)
NonlinearPart(params) ==
    SubSeq(params, getLinearParameterSize + 1,
           getLinearParameterSize + getNonlinearParameterSize)

\* variant: the parameters are pushed only when they differ from the stored ones
PushParamsIfChanged(dirty, params, e) ==
    IF dirty /\ params # e._linearParameters \o e._nonlinearParameters
    THEN EvSetNonlinearParameters(
             EvSetLinearParameters(e, LinearPart(params)), NonlinearPart(params))
    ELSE e

\* if (_dirty) { setLinearParameters; setNonlinearParameters }
PushParams(dirty, params, e) ==
    IF dirty
    THEN EvSetNonlinearParameters(
             EvSetLinearParameters(e, LinearPart(params)), NonlinearPart(params))
    ELSE e

VectorDifference(u, v) == [k \in 1..Len(u) |-> RSub(u[k], v[k])]

\* variant: the model image is taken before the parameters are pushed
ChisqValueBeforePush(c, e, params) ==
    LET dirty == checkParams(c._dirty, params, e)
        imaged == EvComputeModelImage(e)
        after == PushParams(dirty, params, imaged)
        residual == VectorDifference(c._measured, imaged._modelImage)
    IN  [evaluator |-> after, _dirty |-> dirty,
         ret |-> RMul(Rat(1, 2), RDot(residual, residual))]

\* computeValue(params): the evaluator, the flag and the value it returns
ChisqValue(c, e, params) ==
    LET dirty == checkParams(c._dirty, params, e)
        pushed == PushParams(dirty, params, e)
        after == EvComputeModelImage(pushed)
        residual == VectorDifference(c._measured, after._modelImage)
    IN  [evaluator |-> after, _dirty |-> dirty,
         ret |-> RMul(Rat(1, 2), RDot(residual, residual))]

\* variant: the gradient of the sum of squares without the factor one half
GradientVectorDoubled(lpd, npd, residual) ==
    [i \in 1..Len(lpd) |-> RMul(RInt(-2), RDot(lpd[i], residual))]
    \o [m \in 1..Len(npd) |-> RMul(RInt(-2), RDot(npd[m], residual))]

\* gradMap << (-lpd).transpose()*residual, (-npd).transpose()*residual
GradientVector(lpd, npd, residual) ==
    [i \in 1..Len(lpd) |-> RNeg(RDot(lpd[i], residual))]
    \o [m \in 1..Len(npd) |-> RNeg(RDot(npd[m], residual))]

\* computeGradient(params): the evaluator, the flag and the gradient it returns
ChisqGradient(c, e, params, assertFails) ==
    LET dirty == checkParams(c._dirty, params, e)
        pushed == PushParams(dirty, params, e)
        imaged == EvComputeModelImage(pushed)
        residual == VectorDifference(c._measured, imaged._modelImage)
        lined == EvComputeLinearParameterDerivative(imaged)
        after == EvComputeNonlinearParameterDerivative(lined, assertFails)
    IN  [evaluator |-> after, _dirty |-> dirty,
         ret |-> GradientVector(after._linearDerivative, after._nonlinearDerivative,
                                residual)]

(* ------------------------ projections invoked -------------------------- *)
\* no compute operation is on record; traced says whether the record is kept
NoInvocation == [traced |-> FALSE, product |-> "none", frames |-> <<>>]
TracedNoInvocation == [traced |-> TRUE, product |-> "none", frames |-> <<>>]

\* variant: the projections are invoked whatever the validity bit says
ProjectionsInvokedAlways(e, product) ==
    [n \in 1..Len(e._projectionList) |-> e._projectionList[n].frame]

\* if (!(_validProducts & product)) for (i = begin; i != end; ++i) (*i)->compute...():
\* the exposures whose projection the operation invokes, in the order of the calls
ProjectionsInvoked(e, product) ==
    IF product \notin e._validProducts
    THEN [n \in 1..Len(e._projectionList) |-> e._projectionList[n].frame]
    ELSE <<>>

\* the record after a compute operation for product ran on evaluator e
Invoke(record, e, product) ==
    IF record.traced
    THEN [traced |-> TRUE, product |-> product, frames |-> ProjectionsInvoked(e, product)]
    ELSE record

(* ------------------------------- actions ------------------------------- *)
Idle == ~aborted /\ ~chisq.alive
Fitting == ~aborted /\ chisq.alive

NoAssign == [called |-> FALSE, exposureList |-> <<>>, throwsAt |-> 0, nMinPix |-> 0]
NoCalls == [last |-> NoCall, prev |-> NoCall]

\* no apply has been entered
NoFit ==
    [pc |-> "none", fitter |-> "none", checkGradient |-> FALSE, initialErrors |-> 0,
     entryParams |-> <<>>, initialParams |-> <<>>, migradBuilt |-> FALSE,
     migradRuns |-> 0, result |-> <<>>]

\* the evaluator as constructed for a model whose parameters are all 1
Constructed(nMinPix) ==
    [_nMinPix |-> nMinPix,
     _linearParameters |-> [i \in 1..nLinear |-> 1],
     _nonlinearParameters |-> [m \in 1..nNonlinear |-> 1],
     _projectionList |-> <<>>,
     _validProducts |-> {},
     _dataVector |-> <<>>,
     _varianceVector |-> <<>>,
     _modelImageBuffer |-> <<>>,
     _linearDerivativeBuffer |-> <<>>,
     _nonlinearDerivativeBuffer |-> <<>>,
     _sigma |-> <<>>,
     _modelImage |-> <<>>,
     _linearDerivative |-> <<>>,
     _nonlinearDerivative |-> <<>>]

Init ==
    /\ nLinear \in 0..MaxLinear
    /\ nNonlinear \in 0..MaxNonlinear
    /\ \E nMinPix \in 0..MaxMinPix : evaluator = Constructed(nMinPix)
    /\ chisq = NoChisq
    /\ aborted = FALSE
    /\ lastAssign = NoAssign
    /\ calls = NoCalls
    /\ fit = NoFit
    /\ invoked = NoInvocation

setExposureList(exposureList, throwsAt) ==
    /\ Idle
    /\ evaluator' = EvSetExposureList(evaluator, exposureList, throwsAt)
    /\ lastAssign' = [called |-> TRUE, exposureList |-> exposureList,
                      throwsAt |-> throwsAt, nMinPix |-> evaluator._nMinPix]
    /\ UNCHANGED <<nLinear, nNonlinear, chisq, aborted, calls, fit, invoked>>

setNMinPix(n) ==
    /\ Idle
    /\ evaluator' = EvSetNMinPix(evaluator, n)
    /\ UNCHANGED <<nLinear, nNonlinear, chisq, aborted, lastAssign, calls, fit, invoked>>

setLinearParameters(values) ==
    /\ Idle
    /\ evaluator' = EvSetLinearParameters(evaluator, values)
    /\ UNCHANGED <<nLinear, nNonlinear, chisq, aborted, lastAssign, calls, fit, invoked>>

setNonlinearParameters(values) ==
    /\ Idle
    /\ evaluator' = EvSetNonlinearParameters(evaluator, values)
    /\ UNCHANGED <<nLinear, nNonlinear, chisq, aborted, lastAssign, calls, fit, invoked>>

computeModelImage ==
    /\ Idle
    /\ evaluator' = EvComputeModelImage(evaluator)
    /\ invoked' = Invoke(invoked, evaluator, MODEL_IMAGE)
    /\ UNCHANGED <<nLinear, nNonlinear, chisq, aborted, lastAssign, calls, fit>>

computeLinearParameterDerivative ==
    /\ Idle
    /\ evaluator' = EvComputeLinearParameterDerivative(evaluator)
    /\ invoked' = Invoke(invoked, evaluator, LINEAR_PARAMETER_DERIVATIVE)
    /\ UNCHANGED <<nLinear, nNonlinear, chisq, aborted, lastAssign, calls, fit>>

computeNonlinearParameterDerivative ==
    /\ Idle
    /\ \E assertFails \in AssertOutcomes(evaluator) :
         /\ evaluator' = EvComputeNonlinearParameterDerivative(evaluator, assertFails)
         /\ aborted' = assertFails
    /\ invoked' = Invoke(invoked, evaluator, NONLINEAR_PARAMETER_DERIVATIVE)
    /\ UNCHANGED <<nLinear, nNonlinear, chisq, lastAssign, calls, fit>>

\* MinuitAnalyticFitter::apply / MinuitNumericFitter::apply build the function
applyBegin ==
    /\ Idle
    /\ chisq' = ChisqFunctionNew(evaluator)
    /\ calls' = NoCalls
    /\ UNCHANGED <<nLinear, nNonlinear, evaluator, aborted, lastAssign, fit, invoked>>

\* the function is asked for the value at params; a vector that is not
\* nLinear + nNonlinear long is read all the same
computeValue(params) ==
    /\ Fitting
    /\ \E read \in ParamsRead(params) :
         LET r == ChisqValue(chisq, evaluator, read)
         IN  /\ evaluator' = r.evaluator
             /\ chisq' = [chisq EXCEPT !._dirty = r._dirty]
             /\ calls' = [last |-> [op |-> "value", params |-> params, ret |-> r.ret,
                                    dirty |-> chisq._dirty],
                          prev |-> calls.last]
    /\ UNCHANGED <<nLinear, nNonlinear, aborted, lastAssign, fit, invoked>>

\* the minimizer asks for the gradient at params
computeGradient(params) ==
    /\ Fitting
    /\ \E assertFails \in AssertOutcomes(PushParams(
                              checkParams(chisq._dirty, params, evaluator),
                              params, evaluator)) :
         LET r == ChisqGradient(chisq, evaluator, params, assertFails)
         IN  /\ evaluator' = r.evaluator
             /\ chisq' = [chisq EXCEPT !._dirty = r._dirty]
             /\ aborted' = assertFails
             /\ calls' = IF assertFails THEN calls
                         ELSE [last |-> [op |-> "gradient", params |-> params,
                                         ret |-> r.ret, dirty |-> chisq._dirty],
                               prev |-> calls.last]
    /\ UNCHANGED <<nLinear, nNonlinear, lastAssign, fit, invoked>>

\* apply returns and the function goes out of scope
applyReturn ==
    /\ Fitting
    /\ chisq' = NoChisq
    /\ calls' = NoCalls
    /\ UNCHANGED <<nLinear, nNonlinear, evaluator, aborted, lastAssign, fit, invoked>>

(* ------------- MinuitAnalyticFitter / MinuitNumericFitter apply ---------- *)
MinuitAnalyticFitter == "MinuitAnalyticFitter"
MinuitNumericFitter == "MinuitNumericFitter"

\* the fitters and the values of their checkGradient policy entry that apply
\* reads: the numeric fitter never reads it
FitterSettings ==
    {<<MinuitAnalyticFitter, TRUE>>, <<MinuitAnalyticFitter, FALSE>>,
     <<MinuitNumericFitter, FALSE>>}

\* lengths of the initialErrors vector a caller can pass
InitialErrorSizes == 0..(MaxLinear + MaxNonlinear + 1)

\* nParams = getLinearParameterSize() + getNonlinearParameterSize()
nParams == getLinearParameterSize + getNonlinearParameterSize

\* evaluator->getModel(): the model is known by its parameter counts
getModel == [linearSize |-> nLinear, nonlinearSize |-> nNonlinear]

\* variant: an error vector of any length passes
InitialErrorsRejectedNever(n, size) == FALSE

\* if (nParams != initialErrors.size()) throw
InitialErrorsRejected(n, size) == n # size

\* variant: the nonlinear parameters come first
InitialParamsNonlinearFirst(e) == e._nonlinearParameters \o e._linearParameters

\* paramMap << evaluator->getLinearParameters(), evaluator->getNonlinearParameters()
InitialParams(e) == e._linearParameters \o e._nonlinearParameters

\* variant: a minimum that is not valid is thrown as an error
ApplyEndThrowsUnlessValid(valid) == IF valid THEN "returned" ELSE "threw"

\* return Result(min, evaluator->getModel()), whatever min.IsValid() says
ApplyEnd(valid) == "returned"

\* numericGrad[0] and analyticGrad[0] are read whatever nParams is; with no
\* parameter the vectors are empty and the read is outside them: the
\* process may end there (TRUE) or print what it found (FALSE)
PrintOutcomes == IF nParams = 0 THEN BOOLEAN ELSE {FALSE}

\* apply(evaluator, initialErrors): the function is built (Frame.h 215-216,
\* 303); size is initialErrors.size()
applyStart(fitter, checkGradient, size) ==
    /\ Idle
    /\ chisq' = ChisqFunctionNew(evaluator)
    /\ calls' = NoCalls
    /\ fit' = [pc |-> "constructed", fitter |-> fitter,
               checkGradient |-> checkGradient, initialErrors |-> size,
               entryParams |-> <<evaluator._linearParameters,
                                 evaluator._nonlinearParameters>>,
               initialParams |-> <<>>, migradBuilt |-> FALSE,
               migradRuns |-> 0, result |-> <<>>]
    /\ UNCHANGED <<nLinear, nNonlinear, evaluator, aborted, lastAssign, invoked>>

\* the length check, the initial parameter vector and the MnMigrad object
applyValidate ==
    /\ ~aborted
    /\ fit.pc = "constructed"
    /\ IF InitialErrorsRejected(nParams, fit.initialErrors)
       THEN /\ fit' = [fit EXCEPT !.pc = "threw"]
            /\ chisq' = NoChisq
       ELSE /\ fit' = [fit EXCEPT
                          !.pc = IF fit.checkGradient THEN "checkValue" ELSE "ready",
                          !.initialParams = InitialParams(evaluator),
                          !.migradBuilt = TRUE]
            /\ chisq' = chisq
    /\ UNCHANGED <<nLinear, nNonlinear, evaluator, aborted, lastAssign, calls, invoked>>

\* checkGradient: function(initialParams)
checkGradientValue ==
    /\ ~aborted
    /\ fit.pc = "checkValue"
    /\ LET r == ChisqValue(chisq, evaluator, fit.initialParams)
       IN  /\ evaluator' = r.evaluator
           /\ chisq' = [chisq EXCEPT !._dirty = r._dirty]
           /\ calls' = [last |-> [op |-> "value", params |-> fit.initialParams,
                                  ret |-> r.ret, dirty |-> chisq._dirty],
                        prev |-> calls.last]
    /\ fit' = [fit EXCEPT !.pc = "checkNumeric"]
    /\ UNCHANGED <<nLinear, nNonlinear, aborted, lastAssign, invoked>>

\* checkGradient: Numerical2PGradientCalculator asks for the value at a point
\* next to the initial one
checkGradientNumeric(params) ==
    /\ ~aborted
    /\ fit.pc = "checkNumeric"
    /\ LET r == ChisqValue(chisq, evaluator, params)
       IN  /\ evaluator' = r.evaluator
           /\ chisq' = [chisq EXCEPT !._dirty = r._dirty]
           /\ calls' = [last |-> [op |-> "value", params |-> params, ret |-> r.ret,
                                  dirty |-> chisq._dirty],
                        prev |-> calls.last]
    /\ UNCHANGED <<nLinear, nNonlinear, aborted, lastAssign, fit, invoked>>

\* checkGradient: function.Gradient(initialParams)
checkGradientAnalytic ==
    /\ ~aborted
    /\ fit.pc = "checkNumeric"
    /\ \E assertFails \in AssertOutcomes(PushParams(
                              checkParams(chisq._dirty, fit.initialParams, evaluator),
                              fit.initialParams, evaluator)) :
         LET r == ChisqGradient(chisq, evaluator, fit.initialParams, assertFails)
         IN  /\ evaluator' = r.evaluator
             /\ chisq' = [chisq EXCEPT !._dirty = r._dirty]
             /\ aborted' = assertFails
             /\ calls' = IF assertFails THEN calls
                         ELSE [last |-> [op |-> "gradient",
                                         params |-> fit.initialParams, ret |-> r.ret,
                                         dirty |-> chisq._dirty],
                               prev |-> calls.last]
    /\ fit' = [fit EXCEPT !.pc = "checkPrint"]
    /\ UNCHANGED <<nLinear, nNonlinear, lastAssign, invoked>>

\* checkGradient: the three lines written to std::cerr
checkGradientPrint ==
    /\ ~aborted
    /\ fit.pc = "checkPrint"
    /\ \E ends \in PrintOutcomes :
         /\ aborted' = ends
         /\ fit' = [fit EXCEPT !.pc = IF ends THEN "printEnded" ELSE "ready"]
    /\ UNCHANGED <<nLinear, nNonlinear, evaluator, chisq, lastAssign, calls, invoked>>

\* migrad(iterationMax, tolerance) is entered
migradStart ==
    /\ ~aborted
    /\ fit.pc = "ready"
    /\ fit' = [fit EXCEPT !.pc = "migrad", !.migradRuns = @ + 1]
    /\ UNCHANGED <<nLinear, nNonlinear, evaluator, chisq, aborted, lastAssign, calls,
                   invoked>>

\* the minimizer asks the function for its value
migradValue(params) ==
    /\ fit.pc = "migrad"
    /\ computeValue(params)

\* the minimizer asks the function for its gradient; only a GradientFunction
\* has one
migradGradient(params) ==
    /\ fit.pc = "migrad"
    /\ fit.fitter = MinuitAnalyticFitter
    /\ computeGradient(params)

\* migrad comes back with a minimum that is valid or not, and apply ends
applyFinish(valid) ==
    /\ ~aborted
    /\ fit.pc = "migrad"
    /\ fit' = [fit EXCEPT !.pc = ApplyEnd(valid),
                          !.result = [valid |-> valid, model |-> getModel]]
    /\ chisq' = NoChisq
    /\ calls' = NoCalls
    /\ UNCHANGED <<nLinear, nNonlinear, evaluator, aborted, lastAssign, invoked>>

(* ---------------------------- specifications --------------------------- *)
\* the whole program
Next ==
    \/ \E exposureList \in ExposureLists, throwsAt \in 0..NumFrames :
         throwsAt <= Len(exposureList) /\ setExposureList(exposureList, throwsAt)
    \/ \E n \in 0..MaxMinPix : setNMinPix(n)
    \/ \E values \in ParamVectors(nLinear) : setLinearParameters(values)
    \/ \E values \in ParamVectors(nNonlinear) : setNonlinearParameters(values)
    \/ computeModelImage
    \/ computeLinearParameterDerivative
    \/ computeNonlinearParameterDerivative
    \/ applyBegin
    \/ \E params \in ParamVectors(nLinear + nNonlinear) : computeValue(params)
    \/ \E params \in ParamVectors(nLinear + nNonlinear) : computeGradient(params)
    \/ applyReturn

Spec == Init /\ [][Next]_vars

\* frame assignment: the exposure list and the threshold change, the
\* parameters stay as constructed
NextFrames ==
    \/ \E exposureList \in ExposureLists, throwsAt \in 0..NumFrames :
         throwsAt <= Len(exposureList) /\ setExposureList(exposureList, throwsAt)
    \/ \E n \in 0..MaxMinPix : setNMinPix(n)
    \/ computeModelImage
    \/ computeLinearParameterDerivative
    \/ computeNonlinearParameterDerivative

SpecFrames == Init /\ [][NextFrames]_vars

\* model image and linear derivative computed
Computed(e) == EvComputeLinearParameterDerivative(EvComputeModelImage(e))

\* fitting starts from an evaluator that was handed an exposure list and
\* then, possibly, had its products computed and was handed a second list,
\* whose projections may have failed to build
InitFit ==
    /\ nLinear \in 0..MaxLinear
    /\ nNonlinear \in 0..MaxNonlinear
    /\ \E nMinPix \in 0..MaxMinPix, first \in ExposureLists :
         LET e1 == EvSetExposureList(Constructed(nMinPix), first, 0)
         IN  \/ /\ evaluator = e1
                /\ lastAssign = [called |-> TRUE, exposureList |-> first,
                                 throwsAt |-> 0, nMinPix |-> nMinPix]
             \/ \E second \in ExposureLists, throwsAt \in 0..NumFrames :
                  /\ throwsAt <= Len(second)
                  /\ evaluator = EvSetExposureList(Computed(e1), second, throwsAt)
                  /\ lastAssign = [called |-> TRUE, exposureList |-> second,
                                   throwsAt |-> throwsAt, nMinPix |-> nMinPix]
    /\ chisq = NoChisq
    /\ aborted = FALSE
    /\ calls = NoCalls
    /\ fit = NoFit
    /\ invoked = NoInvocation

\* parameter writes, compute operations and fits over a fixed exposure list
NextFit ==
    \/ \E values \in ParamVectors(nLinear) : setLinearParameters(values)
    \/ \E values \in ParamVectors(nNonlinear) : setNonlinearParameters(values)
    \/ computeModelImage
    \/ computeLinearParameterDerivative
    \/ computeNonlinearParameterDerivative
    \/ applyBegin
    \/ \E params \in ParamVectors(nLinear + nNonlinear) : computeValue(params)
    \/ \E params \in ParamVectors(nLinear + nNonlinear) : computeGradient(params)
    \/ applyReturn

SpecFit == InitFit /\ [][NextFit]_vars

\* an evaluator that was handed an exposure list and then had parameters
\* written
InitApply ==
    /\ nLinear \in 0..MaxLinear
    /\ nNonlinear \in 0..MaxNonlinear
    /\ \E nMinPix \in 0..MaxMinPix, exposureList \in ExposureLists,
          linear \in ParamVectors(nLinear), nonlinear \in ParamVectors(nNonlinear) :
         /\ evaluator = EvSetNonlinearParameters(
                            EvSetLinearParameters(
                                EvSetExposureList(Constructed(nMinPix), exposureList, 0),
                                linear),
                            nonlinear)
         /\ lastAssign = [called |-> TRUE, exposureList |-> exposureList,
                          throwsAt |-> 0, nMinPix |-> nMinPix]
    /\ chisq = NoChisq
    /\ aborted = FALSE
    /\ calls = NoCalls
    /\ fit = NoFit
    /\ invoked = NoInvocation

\* the fitters at work, one apply after the other
NextApply ==
    \/ \E setting \in FitterSettings, size \in InitialErrorSizes :
         applyStart(setting[1], setting[2], size)
    \/ applyValidate
    \/ checkGradientValue
    \/ \E params \in ParamVectors(nLinear + nNonlinear) : checkGradientNumeric(params)
    \/ checkGradientAnalytic
    \/ checkGradientPrint
    \/ migradStart
    \/ \E params \in ParamVectors(nLinear + nNonlinear) : migradValue(params)
    \/ \E params \in ParamVectors(nLinear + nNonlinear) : migradGradient(params)
    \/ \E valid \in BOOLEAN : applyFinish(valid)

SpecApply == InitApply /\ [][NextApply]_vars

\* the ChisqFunction on its own: apply has not built one, or one is at hand
\* whose flag is clear, the state the comparison of checkParams is written
\* for.  The evaluator holds at most one exposure, accepted at threshold 0.
InitAdapter ==
    /\ nLinear \in 0..MaxLinear
    /\ nNonlinear \in 0..MaxNonlinear
    /\ \E exposureList \in {l \in ExposureLists : Len(l) <= 1},
          linear \in ParamVectors(nLinear), nonlinear \in ParamVectors(nNonlinear) :
         /\ evaluator = EvSetNonlinearParameters(
                            EvSetLinearParameters(
                                EvSetExposureList(Constructed(0), exposureList, 0),
                                linear),
                            nonlinear)
         /\ lastAssign = [called |-> TRUE, exposureList |-> exposureList,
                          throwsAt |-> 0, nMinPix |-> 0]
    /\ chisq \in {NoChisq, [ChisqFunctionNew(evaluator) EXCEPT !._dirty = FALSE]}
    /\ aborted = FALSE
    /\ calls = NoCalls
    /\ fit = NoFit
    /\ invoked = NoInvocation

\* value and gradient calls with any vector a caller can pass
NextAdapter ==
    \/ applyBegin
    \/ \E params \in AnyParamVectors : computeValue(params)
    \/ \E params \in ParamVectors(nLinear + nNonlinear) : computeGradient(params)
    \/ applyReturn

SpecAdapter == InitAdapter /\ [][NextAdapter]_vars

\* the compute operations and the parameter setters, with the projections
\* each compute operation invokes on record
InitCompute ==
    /\ nLinear \in 0..MaxLinear
    /\ nNonlinear \in 0..MaxNonlinear
    /\ \E nMinPix \in 0..MaxMinPix, first \in ExposureLists :
         LET e1 == EvSetExposureList(Constructed(nMinPix), first, 0)
         IN  \/ /\ evaluator = e1
                /\ lastAssign = [called |-> TRUE, exposureList |-> first,
                                 throwsAt |-> 0, nMinPix |-> nMinPix]
             \/ \E second \in ExposureLists, throwsAt \in 0..NumFrames :
                  /\ throwsAt <= Len(second)
                  /\ evaluator = EvSetExposureList(Computed(e1), second, throwsAt)
                  /\ lastAssign = [called |-> TRUE, exposureList |-> second,
                                   throwsAt |-> throwsAt, nMinPix |-> nMinPix]
    /\ chisq = NoChisq
    /\ aborted = FALSE
    /\ calls = NoCalls
    /\ fit = NoFit
    /\ invoked = TracedNoInvocation

NextCompute ==
    \/ \E values \in ParamVectors(nLinear) : setLinearParameters(values)
    \/ \E values \in ParamVectors(nNonlinear) : setNonlinearParameters(values)
    \/ computeModelImage
    \/ computeLinearParameterDerivative
    \/ computeNonlinearParameterDerivative

SpecCompute == InitCompute /\ [][NextCompute]_vars

(* ------------------------------------------------------------------------ *)
(* Properties                                                               *)
(* ------------------------------------------------------------------------ *)
StoredParams(e) == e._linearParameters \o e._nonlinearParameters

\* every projection that was handed views finds in them its model image for
\* the stored parameters
ModelImageSlicesCurrent(e) ==
    \A n \in 1..Len(e._projectionList) :
        LET p == e._projectionList[n]
        IN  p.assigned =>
              \A j \in 1..p.npix :
                 e._modelImageBuffer[p.pixelStart + j] =
                     ModelValue(p.frame, j, e._linearParameters, e._nonlinearParameters)

LinearSlicesCurrent(e) ==
    \A n \in 1..Len(e._projectionList), i \in 1..nLinear :
        LET p == e._projectionList[n]
        IN  p.assigned =>
              \A j \in 1..p.npix :
                 e._linearDerivativeBuffer[i][p.pixelStart + j] =
                     LinearDerivativeValue(i, p.frame, j, e._linearParameters,
                                           e._nonlinearParameters)

NonlinearSlicesCurrent(e) ==
    \A n \in 1..Len(e._projectionList), m \in 1..nNonlinear :
        LET p == e._projectionList[n]
        IN  p.assigned =>
              \A j \in 1..p.npix :
                 e._nonlinearDerivativeBuffer[m][p.pixelStart + j] =
                     NonlinearDerivativeValue(m, p.frame, j, e._linearParameters,
                                              e._nonlinearParameters)

\* the vector holds the buffer divided element by element by sigma
WeightedOnce(vector, buffer, e) ==
    /\ Len(vector) = getNPixels(e)
    /\ \A k \in 1..getNPixels(e) : vector[k] = Rat(buffer[k], e._sigma[k])

\* the vector holds the buffer as it is
Unweighted(vector, buffer, e) ==
    /\ Len(vector) = getNPixels(e)
    /\ \A k \in 1..getNPixels(e) : vector[k] = RInt(buffer[k])

GradientAfterValue ==
    /\ ~aborted
    /\ calls.prev.op = "value"
    /\ calls.last.op = "gradient"
    /\ calls.last.params # calls.prev.params

\* C1: when gradient(p2) follows value(p1) and p2 differs from p1 in any
\* component, p2 is what the evaluator stores afterwards, all three products
\* are valid, every projection's views hold its products for p2, the weighted
\* model image and derivative matrices are made from those buffers, and the
\* gradient returned is formed from them.
C1_GradientReflectsNewParams ==
    GradientAfterValue =>
        /\ StoredParams(evaluator) = calls.last.params
        /\ evaluator._validProducts = AllProducts
        /\ ModelImageSlicesCurrent(evaluator)
        /\ LinearSlicesCurrent(evaluator)
        /\ NonlinearSlicesCurrent(evaluator)
        /\ WeightedOnce(evaluator._modelImage, evaluator._modelImageBuffer, evaluator)
        /\ \A i \in 1..nLinear :
              WeightedOnce(evaluator._linearDerivative[i],
                           evaluator._linearDerivativeBuffer[i], evaluator)
        /\ \A m \in 1..nNonlinear :
              \/ WeightedOnce(evaluator._nonlinearDerivative[m],
                              evaluator._nonlinearDerivativeBuffer[m], evaluator)
              \/ Unweighted(evaluator._nonlinearDerivative[m],
                            evaluator._nonlinearDerivativeBuffer[m], evaluator)
        /\ calls.last.ret =
              GradientVector(evaluator._linearDerivative, evaluator._nonlinearDerivative,
                  VectorDifference(chisq._measured, evaluator._modelImage))

\* C1 witness: over a non-empty pixel set, gradient(p2) has followed value(p1)
\* where p2 agrees with p1 in the first component and differs in a later one
C1_Witness ==
    /\ GradientAfterValue
    /\ nLinear >= 1 /\ nNonlinear >= 1
    /\ calls.last.params[1] = calls.prev.params[1]
    /\ getNPixels(evaluator) > 0
    /\ \E n \in 1..Len(evaluator._projectionList) : evaluator._projectionList[n].assigned

ValueTwice ==
    /\ calls.prev.op = "value"
    /\ calls.last.op = "value"
    /\ calls.last.params = calls.prev.params

\* C2: two value(p) calls in a row return the same result.
C2_ValueRepeatable == ValueTwice => calls.last.ret = calls.prev.ret

\* C2 witness: value(p) was called twice in a row over a non-empty pixel set
\* and returned a non-zero value
C2_Witness ==
    /\ ValueTwice
    /\ getNPixels(evaluator) > 0
    /\ calls.last.ret # RInt(0)

Projections == evaluator._projectionList
NPixels == getNPixels(evaluator)

AssignmentCompleted == lastAssign.called /\ lastAssign.throwsAt = 0

\* the slices handed out start at 0, follow each other without gap in list
\* order, and each is as long as its projection's footprint
SlicesContiguous ==
    /\ \A n \in 1..Len(Projections) :
          /\ Projections[n].assigned
          /\ Projections[n].npix = FootprintNpix(Projections[n].frame)
          /\ Projections[n].pixelEnd = Projections[n].pixelStart + Projections[n].npix
          /\ Projections[n].pixelStart =
                IF n = 1 THEN 0 ELSE Projections[n - 1].pixelEnd
    /\ NPixels = IF Projections = <<>> THEN 0
                 ELSE Projections[Len(Projections)].pixelEnd

SlicesDisjoint ==
    \A a, b \in 1..Len(Projections) :
        a # b => \/ Projections[a].pixelEnd <= Projections[b].pixelStart
                 \/ Projections[b].pixelEnd <= Projections[a].pixelStart

SlicesCover ==
    /\ \A k \in 0..(NPixels - 1) :
          \E n \in 1..Len(Projections) :
              Projections[n].pixelStart <= k /\ k < Projections[n].pixelEnd
    /\ \A n \in 1..Len(Projections) :
          0 <= Projections[n].pixelStart /\ Projections[n].pixelEnd <= NPixels

BuffersSized ==
    /\ NPixels = SumSeq([n \in 1..Len(Projections) |-> FootprintNpix(Projections[n].frame)])
    /\ Len(evaluator._varianceVector) = NPixels
    /\ Len(evaluator._modelImageBuffer) = NPixels
    /\ Len(evaluator._sigma) = NPixels
    /\ Len(evaluator._linearDerivativeBuffer) = nLinear
    /\ Len(evaluator._nonlinearDerivativeBuffer) = nNonlinear
    /\ \A i \in 1..nLinear : Len(evaluator._linearDerivativeBuffer[i]) = NPixels
    /\ \A m \in 1..nNonlinear : Len(evaluator._nonlinearDerivativeBuffer[m]) = NPixels

\* C3: once setExposureList has completed, the slices of the accepted
\* exposures are contiguous from 0 in list order, pairwise disjoint, cover
\* exactly [0, N), and N, the length of every buffer, is the sum of the
\* accepted footprints' pixel counts.
C3_SlicePartition ==
    AssignmentCompleted =>
        SlicesContiguous /\ SlicesDisjoint /\ SlicesCover /\ BuffersSized

\* C3 witness: a completed assignment accepted two exposures
C3_Witness ==
    /\ AssignmentCompleted
    /\ Len(Projections) = 2
    /\ Projections[2].pixelStart > 0
    /\ NPixels = Projections[1].npix + Projections[2].npix

\* the exposures setExposureList looked at before it returned or threw
Examined ==
    IF lastAssign.throwsAt = 0 THEN lastAssign.exposureList
    ELSE SubSeq(lastAssign.exposureList, 1, lastAssign.throwsAt - 1)

AboveThreshold(f) == FootprintNpix(f) > lastAssign.nMinPix

RECURSIVE ConcatData(_)
\* the pixel data of a sequence of exposures, one exposure after the other
ConcatData(frames) ==
    IF frames = <<>> THEN <<>>
    ELSE [j \in 1..FootprintNpix(Head(frames)) |-> PixelData(Head(frames), j)]
         \o ConcatData(Tail(frames))

\* C4: the projection list holds exactly the examined exposures whose pixel
\* count is strictly above the threshold of the call, in list order; after a
\* completed call the data vector holds the pixels of those exposures and of
\* no other, so a rejected exposure adds nothing to N.
C4_StrictThreshold ==
    lastAssign.called =>
        /\ [n \in 1..Len(Projections) |-> Projections[n].frame]
               = SelectSeq(Examined, AboveThreshold)
        /\ lastAssign.throwsAt = 0 =>
               evaluator._dataVector = ConcatData(SelectSeq(Examined, AboveThreshold))

\* C4 witness: a completed call saw an exposure with exactly threshold pixels
\* and one with threshold + 1 pixels, and kept only the second
C4_Witness ==
    /\ AssignmentCompleted
    /\ lastAssign.nMinPix > 0
    /\ \E a, b \in 1..Len(lastAssign.exposureList) :
          /\ FootprintNpix(lastAssign.exposureList[a]) = lastAssign.nMinPix
          /\ FootprintNpix(lastAssign.exposureList[b]) = lastAssign.nMinPix + 1
          /\ Len(Projections) = 1
          /\ Projections[1].frame = lastAssign.exposureList[b]
          /\ NPixels = lastAssign.nMinPix + 1

Valid(product) == product \in evaluator._validProducts

\* C5: a valid nonlinear derivative has every one of its nNonlinear columns
\* equal to the raw column divided element by element by sigma.
C5_NonlinearColumnsWeighted ==
    Valid(NONLINEAR_PARAMETER_DERIVATIVE) =>
        /\ Len(evaluator._nonlinearDerivative) = nNonlinear
        /\ \A m \in 1..nNonlinear :
              WeightedOnce(evaluator._nonlinearDerivative[m],
                           evaluator._nonlinearDerivativeBuffer[m], evaluator)

\* C6: a valid model image is the raw model image divided once by sigma at
\* every pixel, and a valid linear derivative has each of its nLinear columns
\* equal to the raw column divided once by sigma, after any number of
\* recomputations.
C6_ImageAndLinearWeightedOnce ==
    /\ Valid(MODEL_IMAGE) =>
          WeightedOnce(evaluator._modelImage, evaluator._modelImageBuffer, evaluator)
    /\ Valid(LINEAR_PARAMETER_DERIVATIVE) =>
          /\ Len(evaluator._linearDerivative) = nLinear
          /\ \A i \in 1..nLinear :
                WeightedOnce(evaluator._linearDerivative[i],
                             evaluator._linearDerivativeBuffer[i], evaluator)

\* C6 witness: model image and a linear derivative with a column are valid
\* for parameters written after construction, over pixels one of which has a
\* sigma other than 1
C6_Witness ==
    /\ Valid(MODEL_IMAGE) /\ Valid(LINEAR_PARAMETER_DERIVATIVE)
    /\ nLinear >= 1
    /\ evaluator._linearParameters # [i \in 1..nLinear |-> 1]
    /\ \E k \in 1..NPixels :
          /\ evaluator._sigma[k] > 1
          /\ evaluator._modelImage[k] # RInt(evaluator._modelImageBuffer[k])

\* C7: each compute operation sets its own validity bit and leaves the
\* other two as they were.
C7_OwnBitOnly ==
    [][/\ computeModelImage =>
             evaluator'._validProducts = evaluator._validProducts \cup {MODEL_IMAGE}
       /\ computeLinearParameterDerivative =>
             evaluator'._validProducts =
                 evaluator._validProducts \cup {LINEAR_PARAMETER_DERIVATIVE}
       /\ computeNonlinearParameterDerivative =>
             /\ evaluator'._validProducts \ {NONLINEAR_PARAMETER_DERIVATIVE} =
                    evaluator._validProducts \ {NONLINEAR_PARAMETER_DERIVATIVE}
             /\ ~aborted' => NONLINEAR_PARAMETER_DERIVATIVE \in evaluator'._validProducts
      ]_vars

\* C7 witness: outside a fit, with parameters written and pixels assigned,
\* the model image is valid and neither derivative is
C7_Witness ==
    /\ Idle
    /\ evaluator._validProducts = {MODEL_IMAGE}
    /\ StoredParams(evaluator) # [i \in 1..(nLinear + nNonlinear) |-> 1]
    /\ nLinear >= 1 /\ nNonlinear >= 1
    /\ NPixels > 0

\* the evaluator holds all of one exposure list: every accepted exposure of
\* the latest list has a projection with its slice, and the buffers are sized
\* for exactly those projections
CompleteNewState ==
    /\ [n \in 1..Len(Projections) |-> Projections[n].frame]
           = SelectSeq(lastAssign.exposureList, AboveThreshold)
    /\ SlicesContiguous /\ SlicesDisjoint /\ SlicesCover /\ BuffersSized

\* the evaluator holds no exposure at all
EmptyState ==
    /\ Projections = <<>>
    /\ NPixels = 0
    /\ evaluator._validProducts = {}

\* C8: setExposureList is atomic: whatever happened in the latest call, the
\* evaluator is in the complete state of that call's list or in the empty
\* state.
C8_AssignmentAtomic ==
    lastAssign.called => CompleteNewState \/ EmptyState

\* C9: every setExposureList call clears the three validity bits and leaves
\* every buffer allocated to the total pixel count of the projections it
\* leaves in the list.
C9_ReassignmentClearsAndReallocates ==
    [][\A exposureList \in ExposureLists, throwsAt \in 0..NumFrames :
          throwsAt <= Len(exposureList) /\ setExposureList(exposureList, throwsAt) =>
              /\ evaluator'._validProducts = {}
              /\ BuffersSized'
      ]_vars

\* C10: each parameter setter clears the three validity bits whatever values
\* it writes, so that value(p) leaves exactly the model image valid and a
\* gradient(p) that returns leaves all three valid, each recomputed after the
\* push.
C10_WritesClearAllBits ==
    [][/\ \A values \in ParamVectors(nLinear) :
             setLinearParameters(values) => evaluator'._validProducts = {}
       /\ \A values \in ParamVectors(nNonlinear) :
             setNonlinearParameters(values) => evaluator'._validProducts = {}
       /\ \A params \in ParamVectors(nLinear + nNonlinear) :
             /\ computeValue(params) => evaluator'._validProducts = {MODEL_IMAGE}
             /\ computeGradient(params) /\ ~aborted' =>
                    evaluator'._validProducts = AllProducts
      ]_vars

\* C10 witness: value(p) has followed gradient(p) for the same p, and only
\* the model image is valid
C10_Witness ==
    /\ ~aborted
    /\ calls.prev.op = "gradient"
    /\ calls.last.op = "value"
    /\ calls.last.params = calls.prev.params
    /\ nLinear >= 1 /\ nNonlinear >= 1
    /\ NPixels > 0
    /\ evaluator._validProducts = {MODEL_IMAGE}

EntryParams(e) == <<e._linearParameters, e._nonlinearParameters>>

\* C11: in either fitter, an initial-error vector whose length is not
\* nLinear + nNonlinear ends apply with the configuration error before the
\* minimizer is built or run and before any value or gradient evaluation; from
\* the entry into apply to the throw the evaluator's stored parameters and
\* validity bits stay as they were.
C11_MismatchThrowsBeforeAnyWork ==
    [][/\ \A setting \in FitterSettings, size \in InitialErrorSizes :
             applyStart(setting[1], setting[2], size) =>
                 /\ calls' = NoCalls
                 /\ EntryParams(evaluator') = EntryParams(evaluator)
                 /\ evaluator'._validProducts = evaluator._validProducts
       /\ (applyValidate /\ fit.initialErrors # nLinear + nNonlinear) =>
             /\ fit'.pc = "threw"
             /\ ~fit'.migradBuilt
             /\ fit'.migradRuns = 0
             /\ calls = NoCalls /\ calls' = NoCalls
             /\ EntryParams(evaluator') = fit.entryParams
             /\ evaluator'._validProducts = evaluator._validProducts
      ]_vars

\* C11 witness: apply of the analytic fitter with checkGradient on has thrown
\* for a one-element error vector and a two-parameter model
C11_Witness ==
    /\ fit.pc = "threw"
    /\ fit.fitter = MinuitAnalyticFitter
    /\ fit.checkGradient
    /\ nLinear = 1 /\ nNonlinear = 1
    /\ fit.initialErrors = 1
    /\ getNPixels(evaluator) > 0

\* C12: the checkGradient diagnostic never ends the run, and when it is over
\* the minimizer is handed the initial vector and the evaluator stores the
\* parameters that a run without the diagnostic has at that point: those the
\* evaluator stored when apply was entered.
C12_CheckGradientLeavesOutcome ==
    /\ fit.pc # "printEnded"
    /\ fit.pc = "ready" =>
          /\ fit.initialParams = fit.entryParams[1] \o fit.entryParams[2]
          /\ EntryParams(evaluator) = fit.entryParams

\* C16: an apply whose error vector has the right length and that has ended
\* has returned, has entered the minimizer once, and its result carries the
\* evaluator's model, whether the minimum is valid or not.
C16_OneRunResultEitherWay ==
    (fit.pc \in {"returned", "threw"} /\ fit.initialErrors = nLinear + nNonlinear) =>
        /\ fit.pc = "returned"
        /\ fit.migradRuns = 1
        /\ fit.result.valid \in BOOLEAN
        /\ fit.result.model = getModel

\* C16 witness: apply has returned a minimum that is not valid, after the
\* diagnostic and the minimizer
C16_Witness ==
    /\ fit.pc = "returned"
    /\ fit.checkGradient
    /\ ~fit.result.valid
    /\ fit.migradRuns = 1
    /\ nLinear = 1 /\ nNonlinear = 1

\* C17: the initial vector is the linear parameters followed by the nonlinear
\* ones; after value(p) or gradient(p) the linear parameters are the first
\* nLinear elements of p and the nonlinear parameters the nNonlinear elements
\* after them, so linear ++ nonlinear = p; and once the initial vector has
\* been pushed the stored parameters are those apply found.
C17_ParameterOrder ==
    /\ fit.migradBuilt =>
          /\ Len(fit.initialParams) = nLinear + nNonlinear
          /\ \A i \in 1..nLinear : fit.initialParams[i] = fit.entryParams[1][i]
          /\ \A m \in 1..nNonlinear : fit.initialParams[nLinear + m] = fit.entryParams[2][m]
    /\ (~aborted /\ calls.last.op # "none") =>
          /\ Len(evaluator._linearParameters) = nLinear
          /\ Len(evaluator._nonlinearParameters) = nNonlinear
          /\ \A i \in 1..nLinear : evaluator._linearParameters[i] = calls.last.params[i]
          /\ \A m \in 1..nNonlinear :
                evaluator._nonlinearParameters[m] = calls.last.params[nLinear + m]
          /\ evaluator._linearParameters \o evaluator._nonlinearParameters = calls.last.params
    /\ (fit.pc = "checkNumeric" /\ calls.prev.op = "none") =>
          EntryParams(evaluator) = fit.entryParams

\* C17 witness: the initial vector, with a linear parameter other than the
\* nonlinear one, has been pushed by the first value call of the diagnostic
C17_Witness ==
    /\ fit.pc = "checkNumeric"
    /\ calls.prev.op = "none"
    /\ calls.last.op = "value"
    /\ nLinear = 1 /\ nNonlinear = 1
    /\ calls.last.params[1] # calls.last.params[2]
    /\ getNPixels(evaluator) > 0

\* a value or gradient call on a vector of the model's length has returned
Returned == calls' # calls /\ calls'.last.op # "none"
                /\ Len(calls'.last.params) = nLinear + nNonlinear

\* C13: the flag is true in a newly built function; a call turns it from
\* true to false only if no element of params differs from the stored
\* parameters; a call turns it from false to true only if an element differs,
\* and does so whenever the first element compared differs.
C13_DirtyFlagTransitions ==
    [][/\ applyBegin => chisq'._dirty
       /\ Returned =>
             LET params == calls'.last.params
             IN  /\ (chisq._dirty /\ ~chisq'._dirty) => params = StoredParams(evaluator)
                 /\ (~chisq._dirty /\ chisq'._dirty) => params # StoredParams(evaluator)
                 /\ (~chisq._dirty /\ nLinear + nNonlinear > 0
                        /\ params[1] # StoredParams(evaluator)[1]) => chisq'._dirty
      ]_vars

\* C13 witness: a value call found the flag clear and the first of two
\* parameters changed, and left the flag set
C13_Witness ==
    /\ calls.last.op = "value"
    /\ ~calls.last.dirty
    /\ chisq._dirty
    /\ nLinear = 1 /\ nNonlinear = 1
    /\ Len(calls.last.params) = 2

ConfigurationError == "ConfigurationError"

\* C15: a value call with a params vector whose length is not
\* nLinear + nNonlinear ends in a configuration error and leaves the stored
\* parameters alone.
C15_ParamsLengthGuarded ==
    [][(calls' # calls /\ calls'.last.op = "value"
           /\ Len(calls'.last.params) # nLinear + nNonlinear) =>
          /\ calls'.last.ret = ConfigurationError
          /\ EntryParams(evaluator') = EntryParams(evaluator)
      ]_vars

\* the weighted data less the evaluator's model image
Residual == [k \in 1..NPixels |-> RSub(Rat(evaluator._dataVector[k], evaluator._sigma[k]),
                                       evaluator._modelImage[k])]

\* column c, a sequence over the pixels, times the vector r
ColumnTimes(c, r) == RDot(c, r)

\* C18: after value(p) or gradient(p) the evaluator stores p and its model
\* image is valid and made, in every slice a projection owns, from the model
\* values for p; with r the weighted data less that model image, value(p)
\* has returned one half of the sum of the squares of r, and gradient(p) has
\* returned nLinear + nNonlinear entries, entry i the negated product of
\* column i of the linear derivative with r and entry nLinear + m the negated
\* product of column m of the nonlinear derivative with r, both matrices valid
\* and made from the derivative values for p.
C18_ValueAndGradientFormulas ==
    (~aborted /\ calls.last.op # "none") =>
        /\ StoredParams(evaluator) = calls.last.params
        /\ Valid(MODEL_IMAGE)
        /\ ModelImageSlicesCurrent(evaluator)
        /\ WeightedOnce(evaluator._modelImage, evaluator._modelImageBuffer, evaluator)
        /\ calls.last.op = "value" =>
              calls.last.ret = RMul(Rat(1, 2), RDot(Residual, Residual))
        /\ calls.last.op = "gradient" =>
              /\ Valid(LINEAR_PARAMETER_DERIVATIVE)
              /\ Valid(NONLINEAR_PARAMETER_DERIVATIVE)
              /\ LinearSlicesCurrent(evaluator)
              /\ NonlinearSlicesCurrent(evaluator)
              /\ Len(calls.last.ret) = nLinear + nNonlinear
              /\ \A i \in 1..nLinear :
                    calls.last.ret[i] =
                        RNeg(ColumnTimes(evaluator._linearDerivative[i], Residual))
              /\ \A m \in 1..nNonlinear :
                    calls.last.ret[nLinear + m] =
                        RNeg(ColumnTimes(evaluator._nonlinearDerivative[m], Residual))

\* C18 witness: gradient(p) has returned two non-zero entries over three
\* pixels of two exposures
C18_Witness ==
    /\ ~aborted
    /\ calls.last.op = "gradient"
    /\ nLinear = 1 /\ nNonlinear = 1
    /\ NPixels = 3
    /\ calls.last.ret[1] # RInt(0)
    /\ calls.last.ret[2] # RInt(0)

\* the exposures of the projection list, in list order
ListedFrames == [n \in 1..Len(Projections) |-> Projections[n].frame]

\* a compute operation for product: with the bit set it invokes no projection
\* and leaves the evaluator, the cached product with it, as it is; with the
\* bit clear it invokes each projection of the list once, in list order, and,
\* unless the process ends in it, sets the bit
InvokesOnlyWhenClear(product) ==
    IF product \in evaluator._validProducts
    THEN /\ invoked'.product = product
         /\ invoked'.frames = <<>>
         /\ evaluator' = evaluator
    ELSE /\ invoked'.product = product
         /\ invoked'.frames = ListedFrames
         /\ \A a, b \in 1..Len(invoked'.frames) :
               a # b => invoked'.frames[a] # invoked'.frames[b]
         /\ ~aborted' => product \in evaluator'._validProducts

\* C19: each compute operation invokes the projections only when its
\* validity bit is clear, then every projection of the list once; with the
\* bit set it invokes none and returns the cached product.
C19_ProjectionsInvokedWhenClear ==
    [][/\ computeModelImage => InvokesOnlyWhenClear(MODEL_IMAGE)
       /\ computeLinearParameterDerivative =>
             InvokesOnlyWhenClear(LINEAR_PARAMETER_DERIVATIVE)
       /\ computeNonlinearParameterDerivative =>
             InvokesOnlyWhenClear(NONLINEAR_PARAMETER_DERIVATIVE)
      ]_vars

\* C19 witness: over two projections, a model image that was valid has been
\* asked for again and no projection was invoked
C19_Witness ==
    /\ invoked.traced
    /\ invoked.product = MODEL_IMAGE
    /\ invoked.frames = <<>>
    /\ Valid(MODEL_IMAGE)
    /\ Len(Projections) = 2
    /\ Projections[1].assigned
    /\ nLinear = 1 /\ nNonlinear = 1

\* what setExposureList fixes: the projections with their slices, N, the
\* data and variance vectors and sigma
FrameSet(e) ==
    [projections |-> e._projectionList, N |-> getNPixels(e), data |-> e._dataVector,
     variance |-> e._varianceVector, sigma |-> e._sigma]

\* C20: the parameter setters, the three compute operations and the value
\* and gradient calls leave the projection list, the slice boundaries, N, the
\* data and variance vectors and sigma as they are.
C20_FrameSetFixed ==
    [][(\/ \E values \in ParamVectors(nLinear) : setLinearParameters(values)
        \/ \E values \in ParamVectors(nNonlinear) : setNonlinearParameters(values)
        \/ computeModelImage
        \/ computeLinearParameterDerivative
        \/ computeNonlinearParameterDerivative
        \/ calls' # calls
        \/ aborted') =>
            FrameSet(evaluator') = FrameSet(evaluator)
      ]_vars

\* C20 witness: parameters other than the constructed ones are stored, all
\* three products are valid outside a fit, and the two exposures of the list
\* have their slices, with a sigma other than 1
C20_Witness ==
    /\ Idle
    /\ evaluator._validProducts = AllProducts
    /\ StoredParams(evaluator) = [i \in 1..(nLinear + nNonlinear) |-> 2]
    /\ nLinear = 1 /\ nNonlinear = 1
    /\ Len(Projections) = 2
    /\ Projections[2].pixelEnd = NPixels
    /\ \E k \in 1..NPixels : evaluator._sigma[k] > 1

\* C21: a change of the threshold leaves the projection list, the slices, N
\* and the vectors as they are; the accepted exposures are at all times those
\* of the latest setExposureList call that pass the threshold that call
\* found, which is the threshold the evaluator held when it was called.
C21_FilteringOnlyAtAssignment ==
    /\ [](lastAssign.called => ListedFrames = SelectSeq(Examined, AboveThreshold))
    /\ [][/\ \A n \in 0..MaxMinPix :
                setNMinPix(n) => FrameSet(evaluator') = FrameSet(evaluator)
          /\ lastAssign' # lastAssign => lastAssign'.nMinPix = evaluator._nMinPix
         ]_vars

\* C21 witness: both exposures were accepted at threshold 0 and are still in
\* the list, with their three pixels, after the threshold was raised to the
\* pixel count of one of them
C21_Witness ==
    /\ AssignmentCompleted
    /\ lastAssign.nMinPix = 0
    /\ evaluator._nMinPix = 1
    /\ Len(Projections) = 2
    /\ \E n \in 1..2 : Projections[n].npix = evaluator._nMinPix
    /\ NPixels = 3

RECURSIVE ExpectedModelImage(_, _)
\* the weighted model image of a sequence of projections for the stored
\* parameters of e: pixel by pixel the model value over the sigma of the pixel
ExpectedModelImage(projections, e) ==
    IF projections = <<>> THEN <<>>
    ELSE LET p == Head(projections)
         IN  [j \in 1..FootprintNpix(p.frame) |->
                 Rat(ModelValue(p.frame, j, e._linearParameters, e._nonlinearParameters),
                     Sqrt(PixelVariance(p.frame, j)))]
             \o ExpectedModelImage(Tail(projections), e)

RECURSIVE ExpectedLinearColumn(_, _, _)
\* column i of the weighted linear derivative of a sequence of projections
ExpectedLinearColumn(projections, i, e) ==
    IF projections = <<>> THEN <<>>
    ELSE LET p == Head(projections)
         IN  [j \in 1..FootprintNpix(p.frame) |->
                 Rat(LinearDerivativeValue(i, p.frame, j, e._linearParameters,
                                           e._nonlinearParameters),
                     Sqrt(PixelVariance(p.frame, j)))]
             \o ExpectedLinearColumn(Tail(projections), i, e)

\* C22: if the MODEL_IMAGE bit is set, the cached model image is, over the
\* projections of the current list, the model image of the stored parameters
\* divided by sigma; if the LINEAR_PARAMETER_DERIVATIVE bit is set, each of
\* the nLinear cached columns is the derivative for the stored parameters over
\* the same projections divided by sigma.
C22_CacheCoherent ==
    /\ Valid(MODEL_IMAGE) =>
          evaluator._modelImage = ExpectedModelImage(Projections, evaluator)
    /\ Valid(LINEAR_PARAMETER_DERIVATIVE) =>
          /\ Len(evaluator._linearDerivative) = nLinear
          /\ \A i \in 1..nLinear :
                evaluator._linearDerivative[i] =
                    ExpectedLinearColumn(Projections, i, evaluator)

\* the exposures of the projections in the list of e, in list order
AllListed(e) == [n \in 1..Len(e._projectionList) |-> e._projectionList[n].frame]

\* C23: the flag of the function is set in every state, so every value(p) and
\* gradient(p) call finds it set, p resubmitted unchanged included; the call
\* pushes p through both setters, which leaves no product valid, so that each
\* compute operation of the call invokes every projection of the list; after
\* value(p) the model image alone is valid, after a gradient(p) that returns
\* all three products are, and the slices hold the products for p.
C23_FlagAlwaysSet ==
    /\ [](chisq._dirty)
    /\ [][Returned =>
            LET params == calls'.last.params
                pushed == PushParams(checkParams(chisq._dirty, params, evaluator),
                                     params, evaluator)
            IN  /\ calls'.last.dirty
                /\ StoredParams(pushed) = params
                /\ pushed._validProducts = {}
                /\ StoredParams(evaluator') = params
                /\ ModelImageSlicesCurrent(evaluator')
                /\ ProjectionsInvoked(pushed, MODEL_IMAGE) = AllListed(evaluator)
                /\ calls'.last.op = "value" =>
                       evaluator'._validProducts = {MODEL_IMAGE}
                /\ calls'.last.op = "gradient" =>
                       /\ evaluator'._validProducts = AllProducts
                       /\ LinearSlicesCurrent(evaluator')
                       /\ NonlinearSlicesCurrent(evaluator')
                       /\ \A product \in AllProducts :
                              ProjectionsInvoked(pushed, product) = AllListed(evaluator)
         ]_vars

\* C23 witness: gradient(p) was called twice in a row with the same p over a
\* non-empty pixel set, the second call found the flag set and all three
\* products valid, and left them valid
C23_Witness ==
    /\ ~aborted
    /\ calls.prev.op = "gradient"
    /\ calls.last.op = "gradient"
    /\ calls.last.params = calls.prev.params
    /\ calls.last.dirty
    /\ nLinear = 1 /\ nNonlinear = 1
    /\ NPixels > 0
    /\ evaluator._validProducts = AllProducts

\* C24: every column index the weighting loop of
\* computeNonlinearParameterDerivative uses is one of the nNonlinear columns
\* of the nonlinear derivative matrix, 0 .. nNonlinear - 1, whatever nLinear
\* and nNonlinear are.
C24_WeightingColumnsInRange ==
    [][computeNonlinearParameterDerivative =>
          \A i \in WeightedColumnIndices(evaluator) :
              i \in 0..(getNonlinearParameterSize - 1)
      ]_vars

\* the latest setExposureList call made on an evaluator that was handed no
\* list before, at the threshold the call found
LastCallAlone ==
    EvSetExposureList(Constructed(lastAssign.nMinPix), lastAssign.exposureList,
                      lastAssign.throwsAt)

\* the latest setExposureList call made once more on the evaluator as it is
LastCallAgain ==
    EvSetExposureList(evaluator, lastAssign.exposureList, lastAssign.throwsAt)

\* C25: after any sequence of setExposureList calls the projection list with
\* its slices and the pixel count N are those the latest call alone produces
\* at the threshold it found, and making that call a second time at the same
\* threshold changes neither the accepted exposures nor N nor the slices.
C25_AssignmentDependsOnLastCallOnly ==
    lastAssign.called =>
        /\ Projections = LastCallAlone._projectionList
        /\ NPixels = getNPixels(LastCallAlone)
        /\ evaluator._nMinPix = lastAssign.nMinPix =>
              /\ LastCallAgain._projectionList = Projections
              /\ getNPixels(LastCallAgain) = NPixels

====
